---- MODULE Spec2Model ----
(***************************************************************************)
(* Weather-data acquisition pipeline of weather-dashboard-v1:              *)
(*   - EnhancedRateLimiter (sliding window + exponential backoff)          *)
(*   - the gateway cache (cacheUtils) and WeatherService                   *)
(* Time is the value of Date.now(), in model ticks.                        *)
(***************************************************************************)
EXTENDS Integers, Sequences, FiniteSets, TLC

\* ------------------------------------------------------------------ bounds
MaxTime == 5          \* Date.now() ranges over 0..MaxTime
MaxN == 3             \* maxRequests ranges over 1..MaxN
MaxWindow == 2        \* windowMs of the limiter under test
LongWindow == 4096    \* windowMs of the limiter whose backoff reaches its cap
MaxBackoffTime == 3071 \* Date.now() ranges over 0..MaxBackoffTime in that limiter

\* exponent cap of the backoff: Math.min(count - 1, 10)
BACKOFF_EXP_CAP == 10

Identifiers == {"weather", "search"}
Windows == {MaxWindow}
Backoffs == {1, 2, MaxWindow + 2}

NoViolation == [count |-> 0, lastViolation |-> 0, present |-> FALSE]

VARIABLES
    now,            \* Date.now()
    maxRequests,    \* EnhancedRateLimiter.maxRequests
    windowMs,       \* EnhancedRateLimiter.windowMs
    baseBackoffMs,  \* EnhancedRateLimiter.baseBackoffMs
    requests,       \* EnhancedRateLimiter.requests : identifier -> timestamps
    violations,     \* EnhancedRateLimiter.violations : identifier -> record
    \* history variables (observations of the calls, not program state)
    admitted,       \* identifier -> times of the allowed calls still inside the window
    observed,       \* the identifier whose calls burst, last and prev record
    burst,          \* the calls observed made since it had no recorded state
    last,           \* what the latest checkRequest(observed) returned
    prev,           \* what the checkRequest(observed) before that returned
    \* the gateway (WeatherService)
    apiLimiter,     \* which class apiRateLimiter is an instance of
    apiKey,         \* API_KEY: the key configured, or "undefined"
    legacyRequests, \* RateLimiter.requests of a legacy RateLimiter: identifier -> timestamps
    dashboard,      \* the WeatherDashboard component: its state, effect closure and timer
    cache,          \* the module-level cache Map: key -> CacheEntry
    inflight,       \* slot -> the call awaiting its provider responses
    ev,             \* what the last gateway step did (history variable)
    call,           \* the last application of a function on its own: fn, args, result
    memoryCache,    \* MemoryCache.cache: entries in insertion order
    geo,            \* the promise of the latest getCurrentLocationWeather call
    lastSet         \* <<cache, key>> -> the latest set of the key (history variable)

limiterVars == <<maxRequests, windowMs, baseBackoffMs, requests, violations>>
historyVars == <<admitted, observed, burst, last, prev, call, lastSet>>
gatewayVars == <<apiLimiter, apiKey, legacyRequests, dashboard, cache, inflight, ev, memoryCache, geo>>
vars == <<now, limiterVars, historyVars, gatewayVars>>

Max(a, b) == IF a >= b THEN a ELSE b
Min(a, b) == IF a <= b THEN a ELSE b

RECURSIVE Pow2(_)
Pow2(n) == IF n <= 0 THEN 1 ELSE 2 * Pow2(n - 1)

\* variants of the window filter: a window one tick short, and no filter at all
ValidRequestsShortWindow(reqs, t, w) == SelectSeq(reqs, LAMBDA time : t - time < w - 1)
ValidRequestsNoFilter(reqs, t, w) == reqs

\* requests.filter(time => now - time < this.windowMs)
ValidRequests(reqs, t, w) == SelectSeq(reqs, LAMBDA time : t - time < w)

\* variant of the backoff duration: no cap on the exponent
BackoffTimeUncapped(base, e) == base * Pow2(e)

\* variant of the backoff duration: no exponential growth
BackoffTimeFlat(base, e) == base

\* this.baseBackoffMs * Math.pow(2, Math.min(e, 10))
BackoffTime(base, e) == base * Pow2(Min(e, BACKOFF_EXP_CAP))

\* variant of the end of the backoff: exponent count instead of count - 1
BackoffEndLate(violation, base) ==
    violation.lastViolation + BackoffTime(base, violation.count)

\* violation.lastViolation + backoffTime, for a recorded violation
BackoffEnd(violation, base) ==
    violation.lastViolation + BackoffTime(base, violation.count - 1)

\* variant of the backoff test: a recorded violation never blocks a call
InBackoffNever(violation, base, t) == FALSE

\* if (violation) { ... if (now < backoffEnd) ... }
InBackoff(violation, base, t) ==
    violation.present /\ t < BackoffEnd(violation, base)

\* variant of the limit test: > instead of >=
WindowFullOffByOne(valid, n) == Len(valid) > n

\* validRequests.length >= this.maxRequests
WindowFull(valid, n) == Len(valid) >= n

\* The whole of checkRequest as a function of the identifier's state:
\* the returned object and the identifier's new timestamps and violation.
CheckRequestOutcome(reqs, violation, t, n, w, base) ==
    LET validRequests == ValidRequests(reqs, t, w)
        remaining == Max(0, n - Len(validRequests))
    IN  IF InBackoff(violation, base, t)
        THEN [allowed |-> FALSE, retryAfter |-> BackoffEnd(violation, base) - t,
              remaining |-> 0, requests |-> reqs, violation |-> violation]
        ELSE IF WindowFull(validRequests, n)
        THEN [allowed |-> FALSE, retryAfter |-> BackoffTime(base, violation.count),
              remaining |-> 0, requests |-> reqs,
              violation |-> [count |-> violation.count + 1, lastViolation |-> t,
                             present |-> TRUE]]
        ELSE [allowed |-> TRUE, retryAfter |-> 0,
              remaining |-> remaining - 1,
              requests |-> Append(validRequests, t), violation |-> NoViolation]

\* ---------------------------------------------------------------- gateway
\* bounds of the gateway model
MaxGatewayTime == 3   \* Date.now() ranges over 0..MaxGatewayTime in the gateway
MemoryMaxSize == 2    \* maxSize of the MemoryCache instance, scaled down from 50
MaxInflight == 2      \* calls that may await provider responses at once
ApiMaxRequests == 2   \* maxRequests of apiRateLimiter, scaled down from 60
CacheDuration == 2    \* WEATHER_API.CACHE_DURATION in ticks, scaled down from 10 min

\* slice(0, 5) of the daily buckets
MAX_FORECAST_DAYS == 5

Slots == 1..MaxInflight

\* a JavaScript number: NaN or an integer value
Num(v) == [nan |-> FALSE, v |-> v]
NaN == [nan |-> TRUE, v |-> 0]
\* the (lat, lon) pairs the callers pass: two valid places, a latitude and a
\* longitude out of range, and a NaN
CoordInputs ==
    { <<Num(51), Num(0)>>, <<Num(51), Num(1)>>, <<Num(91), Num(0)>>,
      <<Num(51), Num(-181)>>, <<NaN, Num(0)>> }

\* ---- validateCoordinates
\* variant of the validation: the range bounds themselves are rejected
ValidateCoordinatesExclusive(lat, lon) ==
    IF lat.nan \/ lon.nan
    THEN [isValid |-> FALSE, error |-> "Coordinates must be valid numbers"]
    ELSE IF lat.v <= -90 \/ lat.v >= 90
    THEN [isValid |-> FALSE, error |-> "Latitude must be between -90 and 90 degrees"]
    ELSE IF lon.v <= -180 \/ lon.v >= 180
    THEN [isValid |-> FALSE, error |-> "Longitude must be between -180 and 180 degrees"]
    ELSE [isValid |-> TRUE, error |-> "undefined"]

\* variant of the validation: every pair is accepted
ValidateCoordinatesAcceptAll(lat, lon) == [isValid |-> TRUE, error |-> "undefined"]

ValidateCoordinates(lat, lon) ==
    IF lat.nan \/ lon.nan
    THEN [isValid |-> FALSE, error |-> "Coordinates must be valid numbers"]
    ELSE IF lat.v < -90 \/ lat.v > 90
    THEN [isValid |-> FALSE, error |-> "Latitude must be between -90 and 90 degrees"]
    ELSE IF lon.v < -180 \/ lon.v > 180
    THEN [isValid |-> FALSE, error |-> "Longitude must be between -180 and 180 degrees"]
    ELSE [isValid |-> TRUE, error |-> "undefined"]

\* ---- generateCacheKey: strings are sequences of characters
Digit(d) == <<"0", "1", "2", "3", "4", "5", "6", "7", "8", "9">>[d + 1]

RECURSIVE NatToString(_)
NatToString(n) ==
    IF n < 10 THEN <<Digit(n)>> ELSE NatToString(n \div 10) \o <<Digit(n % 10)>>

\* String(x) as Array.prototype.join applies it to a number
NumberToString(x) ==
    IF x.nan THEN <<"N", "a", "N">>
    ELSE IF x.v < 0 THEN <<"-">> \o NatToString(-x.v)
    ELSE NatToString(x.v)

RECURSIVE Join(_, _)
Join(params, sep) ==
    IF params = <<>> THEN <<>>
    ELSE IF Len(params) = 1 THEN params[1]
    ELSE params[1] \o sep \o Join(Tail(params), sep)

\* `${prefix}_${params.join('_')}`
GenerateCacheKey(prefix, params) == prefix \o <<"_">> \o Join(params, <<"_">>)

WeatherPrefix == <<"w", "e", "a", "t", "h", "e", "r">>
SearchPrefix == <<"s", "e", "a", "r", "c", "h">>
WeatherKey(lat, lon) ==
    GenerateCacheKey(WeatherPrefix, <<NumberToString(lat), NumberToString(lon)>>)

\* ---- cacheUtils over the cache Map (a function whose domain is the keys held)
EmptyCache == [k \in {} |-> 0]

\* variant of the freshness test: an entry expires one tick early
CacheFreshShort(entry, t) == t - entry.timestamp < CacheDuration - 1

\* Date.now() - cached.timestamp < WEATHER_API.CACHE_DURATION
CacheFresh(entry, t) == t - entry.timestamp < CacheDuration

\* the value returned, or <<>> for null
CacheGet(c, key, t) ==
    IF key \in DOMAIN c /\ CacheFresh(c[key], t) THEN <<c[key].data>> ELSE <<>>

\* variant of set: a key already held keeps its entry
CacheSetIfAbsent(c, key, data, t) ==
    IF key \in DOMAIN c THEN c
    ELSE [k \in DOMAIN c \cup {key} |->
            IF k = key THEN [data |-> data, timestamp |-> t] ELSE c[k]]

CacheSet(c, key, data, t) ==
    [k \in DOMAIN c \cup {key} |->
        IF k = key THEN [data |-> data, timestamp |-> t] ELSE c[k]]

\* variant of delete: the entry stays
CacheDeleteNothing(c, key) == c

CacheDelete(c, key) == [k \in DOMAIN c \ {key} |-> c[k]]

CacheClear(c) == EmptyCache

\* ---- MemoryCache over its Map, kept as the sequence of its entries in
\* insertion order
MemoryKeys(mc) == {mc[i].key : i \in DOMAIN mc}
MemoryIndex(mc, key) == CHOOSE i \in DOMAIN mc : mc[i].key = key
MemoryRemove(mc, key) == SelectSeq(mc, LAMBDA entry : entry.key # key)

MemoryCacheSet(mc, key, data, ttl, t, maxSize) ==
    LET room == IF Len(mc) >= maxSize /\ mc # <<>> THEN Tail(mc) ELSE mc
        entry == [key |-> key, data |-> data, expiry |-> t + ttl]
    IN  IF key \in MemoryKeys(room)
        THEN [room EXCEPT ![MemoryIndex(room, key)] = entry]
        ELSE Append(room, entry)

\* the value returned (<<>> for null) and the Map left behind
MemoryCacheGet(mc, key, t) ==
    IF key \notin MemoryKeys(mc) THEN [value |-> <<>>, cache |-> mc]
    ELSE IF t > mc[MemoryIndex(mc, key)].expiry
    THEN [value |-> <<>>, cache |-> MemoryRemove(mc, key)]
    ELSE [value |-> <<mc[MemoryIndex(mc, key)].data>>, cache |-> mc]

\* ---- provider responses
\* A text is known by the needles of getErrorMessage that occur in it.
Text(label, has) == [label |-> label, has |-> has]
EmptyText == Text("", {})
DefaultCurrentText == Text("Failed to fetch current weather", {"fetch", "Failed to fetch"})
DefaultForecastText == Text("Failed to fetch forecast", {"fetch", "Failed to fetch"})
TypeErrorText == Text("Cannot read properties of undefined", {})
FetchFailedText == Text("Failed to fetch", {"fetch", "Failed to fetch"})

\* a forecast sample: dt_txt as <<date, hour>>, main.temp in tenths of a
\* degree, and whether weather[0] is present
Sample(date, hour, temp, hasWeather) ==
    [dt_txt |-> <<date, hour>>, temp |-> temp, weather |-> hasWeather]

\* bodies of 200 responses: valid says that the body parses and has the
\* fields the code reads outside the forecast list
CurrentBodies ==
    { [valid |-> TRUE, name |-> "London"] }
ForecastBodies ==
    { [valid |-> TRUE, list |-> <<>>],
      [valid |-> TRUE, list |-> <<Sample(1, 9, 104, TRUE), Sample(1, 12, 156, TRUE),
                                  Sample(2, 9, -25, TRUE)>>],
      [valid |-> TRUE, list |-> <<Sample(1, 9, 104, TRUE), Sample(1, 12, 156, FALSE)>>] }

NoBody == [valid |-> FALSE]
HttpResponse(status, text, body) ==
    [kind |-> "http", status |-> status, text |-> text, body |-> body]
\* what a provider request may end in: a transport failure (fetch rejects),
\* a 200 response with one of the bodies, or a non-2xx response
Responses(bodies) ==
    { [kind |-> "network", status |-> 0, text |-> FetchFailedText, body |-> NoBody] }
    \cup { HttpResponse(200, EmptyText, b) : b \in bodies }
    \cup { HttpResponse(404, Text("city not found", {}), NoBody) }

\* response.ok
Ok(response) == response.status >= 200 /\ response.status <= 299

\* ---- forecast aggregation (the dailyMap and dailyForecasts)
\* dt_txt.split(' ')[0]
DatePart(dt_txt) == dt_txt[1]

\* Math.round of a value given in tenths
RoundTenths(x) == (x + 5) \div 10

RECURSIVE FirstSeenDates(_, _)
FirstSeenDates(list, seen) ==
    IF list = <<>> THEN seen
    ELSE LET date == DatePart(Head(list).dt_txt)
         IN  FirstSeenDates(Tail(list),
                 IF \E i \in DOMAIN seen : seen[i] = date THEN seen
                 ELSE Append(seen, date))

RECURSIVE MaxOf(_)
MaxOf(temps) ==
    IF Len(temps) = 1 THEN temps[1] ELSE Max(temps[1], MaxOf(Tail(temps)))
\* variant of the minimum: the first temperature of the day
MinOfFirst(temps) == temps[1]

RECURSIVE MinOf(_)
MinOf(temps) ==
    IF Len(temps) = 1 THEN temps[1] ELSE Min(temps[1], MinOf(Tail(temps)))

Temps(list, date) ==
    LET ofDate == SelectSeq(list, LAMBDA item : DatePart(item.dt_txt) = date)
    IN  [i \in DOMAIN ofDate |-> ofDate[i].temp]

\* variant of the aggregation: every daily bucket is kept
DailyForecastsNoSlice(list) ==
    LET kept == FirstSeenDates(list, <<>>)
    IN  [i \in DOMAIN kept |->
            [date |-> kept[i],
             maxTemp |-> RoundTenths(MaxOf(Temps(list, kept[i]))),
             minTemp |-> RoundTenths(MinOf(Temps(list, kept[i])))]]

DailyForecasts(list) ==
    LET dates == FirstSeenDates(list, <<>>)
        kept == SubSeq(dates, 1, Min(Len(dates), MAX_FORECAST_DAYS))
    IN  [i \in DOMAIN kept |->
            [date |-> kept[i],
             maxTemp |-> RoundTenths(MaxOf(Temps(list, kept[i]))),
             minTemp |-> RoundTenths(MinOf(Temps(list, kept[i])))]]

\* variant of the build: nothing ever throws
BuildThrowsNever(currentData, forecastData) == FALSE

\* whether lines 208-275 throw: a body that does not parse or lacks the fields
\* read, or a forecast item without weather[0]
BuildThrows(currentData, forecastData) ==
    \/ ~currentData.valid
    \/ ~forecastData.valid
    \/ \E i \in DOMAIN forecastData.list : ~forecastData.list[i].weather

\* the WeatherData object of lines 254-275
WeatherDataOf(currentData, forecastData, t) ==
    [location |-> [name |-> currentData.name],
     forecast |-> DailyForecasts(forecastData.list),
     lastUpdated |-> t]

\* ---- getErrorMessage, on the set of needles the raw message contains
GetErrorMessage(has) ==
    IF "401" \in has THEN "INVALID_API_KEY"
    ELSE IF "404" \in has THEN "CITY_NOT_FOUND"
    ELSE IF "429" \in has THEN "TOO_MANY_REQUESTS"
    ELSE IF "NetworkError" \in has \/ "fetch" \in has THEN "NETWORK_ERROR"
    ELSE IF "Failed to fetch" \in has THEN "FETCH_ERROR"
    ELSE "Weather service error"

StatusNeedles(status) ==
    IF status = 401 THEN {"401"} ELSE IF status = 404 THEN {"404"}
    ELSE IF status = 429 THEN {"429"} ELSE {}

\* `HTTP ${status}: ${errorText || fallback}`
HttpErrorNeedles(response, fallback) ==
    StatusNeedles(response.status)
        \cup (IF response.text.label = "" THEN fallback.has ELSE response.text.has)

\* what the try block of getWeatherData throws for the two responses: <<>> when
\* it completes, else <<the needles of the message thrown>>
WeatherFetchError(cur, fc) ==
    IF cur.kind = "network" \/ fc.kind = "network" THEN <<FetchFailedText.has>>
    ELSE IF ~Ok(cur) THEN <<HttpErrorNeedles(cur, DefaultCurrentText)>>
    ELSE IF ~Ok(fc) THEN <<HttpErrorNeedles(fc, DefaultForecastText)>>
    ELSE IF BuildThrows(cur.body, fc.body) THEN <<TypeErrorText.has>>
    ELSE <<>>

\* ---- sanitizeString and validateSearchQuery, on character sequences over
\* an alphabet without markup, which DOMPurify.sanitize leaves as it is
WordChars == {"a", "b", "A", "_"}
SpaceChars == {" "}
Punctuation == {"-", ".", ",", "'", "/"}

RECURSIVE TrimStart(_)
TrimStart(str) ==
    IF str # <<>> /\ Head(str) \in SpaceChars THEN TrimStart(Tail(str)) ELSE str
RECURSIVE TrimEnd(_)
TrimEnd(str) ==
    IF str # <<>> /\ str[Len(str)] \in SpaceChars
    THEN TrimEnd(SubSeq(str, 1, Len(str) - 1)) ELSE str
Trim(str) == TrimEnd(TrimStart(str))

\* replace(/\s+/g, ' ')
RECURSIVE NormalizeWhitespace(_)
NormalizeWhitespace(str) ==
    IF str = <<>> THEN <<>>
    ELSE IF Head(str) \in SpaceChars
    THEN <<" ">> \o NormalizeWhitespace(TrimStart(str))
    ELSE <<Head(str)>> \o NormalizeWhitespace(Tail(str))

SanitizeString(input, maxLength) ==
    LET trimmed == Trim(input)
        noBrackets == SelectSeq(trimmed, LAMBDA ch : ch \notin {"<", ">"})
        allowed == SelectSeq(noBrackets,
                       LAMBDA ch : ch \in WordChars \cup SpaceChars \cup Punctuation)
        normalized == NormalizeWhitespace(allowed)
    IN  SubSeq(normalized, 1, Min(Len(normalized), maxLength))

ValidateSearchQuery(query) ==
    LET sanitized == SanitizeString(query, 100)
    IN  IF query = <<>>
        THEN [isValid |-> FALSE, error |-> "Search query is required"]
        ELSE IF Len(sanitized) < 2
        THEN [isValid |-> FALSE,
              error |-> "Search query must be at least 2 characters long"]
        ELSE IF Len(sanitized) > 50
        THEN [isValid |-> FALSE,
              error |-> "Search query must be less than 50 characters"]
        ELSE IF \E i \in DOMAIN sanitized :
                    sanitized[i] \notin WordChars \cup SpaceChars \cup {"-", ".", ","}
        THEN [isValid |-> FALSE, error |-> "Search query contains invalid characters"]
        ELSE [isValid |-> TRUE, error |-> "undefined"]

\* bodies of 200 geocoding responses
SearchBodies ==
    { [valid |-> TRUE, list |-> <<>>],
      [valid |-> TRUE, list |-> <<[name |-> "London", lat |-> 51, lon |-> 0]>>] }
DefaultSearchText == Text("Failed to search cities", {})

\* what the try block of searchCities throws for the response
SearchFetchError(response) ==
    IF response.kind = "network" THEN <<FetchFailedText.has>>
    ELSE IF ~Ok(response) THEN <<HttpErrorNeedles(response, DefaultSearchText)>>
    ELSE IF ~response.body.valid THEN <<TypeErrorText.has>>
    ELSE <<>>

\* ---- the limiter as the gateway uses it
\* RateLimiter.isAllowed of the class without backoff
LegacyIsAllowedOutcome(reqs, violation, t, n, w) ==
    LET validRequests == ValidRequests(reqs, t, w)
    IN  IF Len(validRequests) >= n
        THEN [allowed |-> FALSE, retryAfter |-> 0, remaining |-> 0,
              requests |-> reqs, violation |-> violation]
        ELSE [allowed |-> TRUE, retryAfter |-> 0, remaining |-> 0,
              requests |-> Append(validRequests, t), violation |-> violation]

\* variant of the Map key: one record shared by every identifier
LimiterKeyShared(identifier) == "weather"

\* the key under which the Maps hold an identifier's state
LimiterKey(identifier) == identifier

\* apiRateLimiter.isAllowed(identifier): the outcome for the current state
IsAllowedOutcome(identifier) ==
    IF apiLimiter = "enhanced"
    THEN CheckRequestOutcome(requests[LimiterKey(identifier)],
                             violations[LimiterKey(identifier)], now,
                             maxRequests, windowMs, baseBackoffMs)
    ELSE LegacyIsAllowedOutcome(requests[LimiterKey(identifier)],
                                violations[LimiterKey(identifier)], now,
                                maxRequests, windowMs)

\* variant of the bookkeeping: the call leaves the limiter as it was
LimiterUpdateSkipped(identifier, out) == UNCHANGED <<requests, violations>>

LimiterUpdate(identifier, out) ==
    /\ requests' = [requests EXCEPT ![LimiterKey(identifier)] = out.requests]
    /\ violations' = [violations EXCEPT ![LimiterKey(identifier)] = out.violation]

\* ---- getCurrentLocationWeather: the promise it returns. value is <<>> for
\* null; resolves counts the resolve calls; position and weather record how
\* the geolocation request and the getWeatherData call ended
NoGeo == [phase |-> "idle", value |-> <<>>, resolves |-> 0, position |-> "none",
          weather |-> "none", slot |-> 0]
GeoErrorCodes == {"PERMISSION_DENIED", "POSITION_UNAVAILABLE", "TIMEOUT"}

GeoResolve(g, value) ==
    [g EXCEPT !.phase = "resolved", !.value = value, !.resolves = @ + 1]

\* variant of the success callback: a failure of getWeatherData rejects
GeoSuccessRethrows(g, outcome, data) ==
    IF outcome = "error"
    THEN [g EXCEPT !.phase = "rejected", !.weather = "error"]
    ELSE GeoResolve([g EXCEPT !.weather = "ok"], data)

\* the success callback once getWeatherData has returned or thrown
GeoSuccessSettles(g, outcome, data) ==
    IF outcome = "error"
    THEN GeoResolve([g EXCEPT !.weather = "error"], <<>>)
    ELSE GeoResolve([g EXCEPT !.weather = "ok"], data)

\* ---- WeatherDashboard. weatherData is the state shown (<<>> is null);
\* closure is the weatherData the interval callback closed over; timer is
\* <<the time the interval fires next>> or <<>>; refreshed is the argument of
\* the refreshWeatherData call the latest callback run made, <<>> for none
RefreshInterval == 2
NoDashboard == [mounted |-> FALSE, weatherData |-> <<>>, closure |-> <<>>,
                timer |-> <<>>, refreshed |-> <<>>, op |-> "none",
                recentSearches |-> <<>>]

\* [search, ...filtered].slice(0, 5)
MAX_RECENT_SEARCHES == 5

\* the list weatherStorage.addRecentSearch saves, and handleLocationSelect sets
AddRecentSearch(recentSearches, search) ==
    LET filtered == SelectSeq(recentSearches,
                        LAMBDA item : ~(item.lat = search.lat /\ item.lon = search.lon))
        updated == <<search>> \o filtered
    IN  SubSeq(updated, 1, Min(Len(updated), MAX_RECENT_SEARCHES))
Locations == {"London", "Paris", "Tokyo"}

\* ---------------------------------------------------------------- history
\* no function applied on its own yet
NoApply == [fn |-> "none", args |-> <<>>, result |-> <<>>, time |-> 0]

\* the two caches, and the keys, values and ttls used on them directly
CacheNames == {"cacheUtils", "MemoryCache"}
CacheKeys == {<<"j">>, <<"k">>}
GatewayCacheKeys == {<<"k">>}
CacheValues == {"v", "w"}
CacheTtls == {1, CacheDuration}
\* an entry of lastSet: the value set, when, and with which ttl
NoSets == [c \in CacheNames, key \in CacheKeys |-> <<>>]

NoCall == [called |-> FALSE, allowed |-> FALSE, retryAfter |-> 0,
           remaining |-> 0, time |-> 0, run |-> 0]
FreshBurst == [active |-> TRUE, n |-> 0, first |-> 0]
OverBurst == [active |-> FALSE, n |-> 0, first |-> 0]

\* the calls of a burst: made by an identifier that had no recorded state,
\* all within one window of the first of them, at most maxRequests + 1
BurstAfterCall(b, t) ==
    IF ~b.active THEN OverBurst
    ELSE IF b.n = 0 THEN [active |-> TRUE, n |-> 1, first |-> t]
    ELSE IF t - b.first < windowMs /\ b.n <= maxRequests
         THEN [b EXCEPT !.n = b.n + 1]
    ELSE OverBurst

BurstAfterTick(b, t) ==
    IF b.active /\ b.n > 0 /\ ~(t - b.first < windowMs) THEN OverBurst ELSE b

InWindow(times, t) == SelectSeq(times, LAMBDA x : t - x < windowMs)

Observe(id, out) ==
    /\ admitted' = [admitted EXCEPT ![id] =
                       IF out.allowed THEN Append(InWindow(@, now), now)
                       ELSE InWindow(@, now)]
    /\ IF id = observed
       THEN /\ burst' = BurstAfterCall(burst, now)
            /\ prev' = last
            /\ last' = [called |-> TRUE, allowed |-> out.allowed,
                        retryAfter |-> out.retryAfter,
                        remaining |-> out.remaining, time |-> now,
                        run |-> IF out.allowed THEN 0 ELSE Min(2, last.run + 1)]
       ELSE UNCHANGED <<burst, last, prev>>
    /\ UNCHANGED <<observed, call, lastSet>>

\* ---------------------------------------------------------------- actions
\* import.meta.env.VITE_OPENWEATHER_API_KEY: a key, or undefined when not set
ConfiguredKey == "key"
MissingKey == "undefined"
\* !!API_KEY
HasAPIKey(key) == key # MissingKey /\ key # ""

NoResponse == [kind |-> "none"]
Idle == [op |-> "idle"]
NoIssued == [current |-> 0, forecast |-> 0, geo |-> 0]
\* op: the operation; id: the identifier it passed to the limiter; outcome:
\* "returned", "error" (it threw) or "pending" (it awaits the provider);
\* issued: the provider requests it sent; entry: what the cache Map held for
\* its key when it was called; cur, fc: the responses a completion received;
\* retryAfter: the retryAfter property of the Error it threw (<<>> is
\* undefined); limiter: <<the retryAfter the limiter computed>> on a denial;
\* appid: the appid parameter of the requests it sent
NoEvent == [op |-> "none", id |-> "none", outcome |-> "none", error |-> "none",
            data |-> <<>>, issued |-> NoIssued, key |-> <<>>, entry |-> "none",
            slot |-> 0, cur |-> NoResponse, fc |-> NoResponse,
            retryAfter |-> <<>>, limiter |-> <<>>, appid |-> "none"]

\* an entry is fresh when less than the cache TTL has passed since it was stored
EntryState(c, key, t) ==
    IF key \notin DOMAIN c THEN "absent"
    ELSE IF t - c[key].timestamp < CacheDuration THEN "fresh"
    ELSE "stale"

CheckRequest(id) ==
    LET out == CheckRequestOutcome(requests[LimiterKey(id)], violations[LimiterKey(id)],
                                   now, maxRequests, windowMs, baseBackoffMs)
    IN  /\ LimiterUpdate(id, out)
        /\ Observe(id, out)
        /\ ev' = NoEvent
        /\ UNCHANGED <<now, maxRequests, windowMs, baseBackoffMs, apiLimiter, apiKey, legacyRequests,
                       dashboard, cache, inflight, memoryCache, geo>>

\* Date.now() advances by one tick, up to the bound
TickUpTo(bound) ==
    /\ now < bound
    /\ now' = now + 1
    /\ admitted' = [id \in Identifiers |-> InWindow(admitted[id], now')]
    /\ burst' = BurstAfterTick(burst, now')
    /\ ev' = NoEvent
    /\ UNCHANGED <<limiterVars, observed, last, prev, apiLimiter, apiKey, legacyRequests, dashboard, cache, inflight, call,
                   memoryCache, geo, lastSet>>

Tick == TickUpTo(MaxTime)

TickGateway == TickUpTo(MaxGatewayTime)

InitRL ==
    /\ now = 0
    /\ maxRequests \in 1..MaxN
    /\ windowMs \in Windows
    /\ baseBackoffMs \in Backoffs
    /\ requests = [id \in Identifiers |-> <<>>]
    /\ violations = [id \in Identifiers |-> NoViolation]
    /\ admitted = [id \in Identifiers |-> <<>>]
    /\ observed \in Identifiers
    /\ burst = FreshBurst
    /\ last = NoCall
    /\ prev = NoCall
    /\ apiLimiter = "enhanced"
    /\ apiKey = ConfiguredKey
    /\ legacyRequests = [id \in Identifiers |-> <<>>]
    /\ dashboard = NoDashboard
    /\ cache = EmptyCache
    /\ inflight = [slot \in Slots |-> Idle]
    /\ ev = NoEvent
    /\ call = NoApply
    /\ memoryCache = <<>>
    /\ geo = NoGeo
    /\ lastSet = NoSets

NextRL ==
    \/ \E id \in Identifiers : CheckRequest(id)
    \/ Tick

SpecRL == InitRL /\ [][NextRL]_vars

\* ---- a limiter with a window long enough for the backoff to reach its cap.
\* Date.now() moves from call to call: to the end of the running backoff of
\* the identifier observed
WaitBackoff(id) ==
    /\ InBackoff(violations[id], baseBackoffMs, now)
    /\ BackoffEnd(violations[id], baseBackoffMs) <= MaxBackoffTime
    /\ now' = BackoffEnd(violations[id], baseBackoffMs)
    /\ admitted' = [i \in Identifiers |-> InWindow(admitted[i], now')]
    /\ burst' = BurstAfterTick(burst, now')
    /\ ev' = NoEvent
    /\ UNCHANGED <<limiterVars, observed, last, prev, apiLimiter, apiKey, legacyRequests, dashboard,
                   cache, inflight, call, memoryCache, geo, lastSet>>

InitBackoff ==
    /\ now = 0
    /\ maxRequests \in 1..2
    /\ windowMs = LongWindow
    /\ baseBackoffMs \in {1, 2}
    /\ requests = [id \in Identifiers |-> <<>>]
    /\ violations = [id \in Identifiers |-> NoViolation]
    /\ admitted = [id \in Identifiers |-> <<>>]
    /\ observed \in Identifiers
    /\ burst = FreshBurst
    /\ last = NoCall
    /\ prev = NoCall
    /\ apiLimiter = "enhanced"
    /\ apiKey = ConfiguredKey
    /\ legacyRequests = [id \in Identifiers |-> <<>>]
    /\ dashboard = NoDashboard
    /\ cache = EmptyCache
    /\ inflight = [slot \in Slots |-> Idle]
    /\ ev = NoEvent
    /\ call = NoApply
    /\ memoryCache = <<>>
    /\ geo = NoGeo
    /\ lastSet = NoSets

NextBackoff ==
    \/ \E id \in Identifiers : CheckRequest(id)
    \/ WaitBackoff(observed)

SpecBackoff == InitBackoff /\ [][NextBackoff]_vars

\* ---- WeatherService
FreeSlots == {slot \in Slots : inflight[slot].op = "idle"}
FirstFree == CHOOSE slot \in FreeSlots : \A other \in FreeSlots : slot <= other

Event(op, id, outcome, error, key) ==
    [NoEvent EXCEPT !.op = op, !.id = id, !.outcome = outcome, !.error = error,
                    !.key = key, !.entry = EntryState(cache, key, now)]

\* getWeatherData up to its first await, entered with the cache Map equal to c
GetWeatherDataFrom(op, lat, lon, c) ==
    LET validation == ValidateCoordinates(lat, lon)
        out == IsAllowedOutcome("weather")
        cacheKey == WeatherKey(lat, lon)
        cached == CacheGet(c, cacheKey, now)
    IN  /\ cache' = c
        /\ IF ~validation.isValid
           THEN /\ ev' = Event(op, "none", "error", validation.error, cacheKey)
                /\ UNCHANGED <<requests, violations, inflight>>
           ELSE IF ~out.allowed
           THEN /\ LimiterUpdate("weather", out)
                /\ ev' = [Event(op, "weather", "error",
                                "Too many weather requests. Please wait a moment.",
                                cacheKey)
                             EXCEPT !.limiter = <<out.retryAfter>>]
                /\ UNCHANGED inflight
           ELSE IF cached # <<>>
           THEN /\ LimiterUpdate("weather", out)
                /\ ev' = [Event(op, "weather", "returned", "none", cacheKey)
                             EXCEPT !.data = cached]
                /\ UNCHANGED inflight
           ELSE /\ FreeSlots # {}
                /\ LimiterUpdate("weather", out)
                /\ inflight' = [inflight EXCEPT ![FirstFree] =
                                  [op |-> "weather", key |-> cacheKey]]
                /\ ev' = [Event(op, "weather", "pending", "none", cacheKey)
                             EXCEPT !.issued = [current |-> 1, forecast |-> 1, geo |-> 0],
                                    !.slot = FirstFree, !.appid = apiKey]
        /\ UNCHANGED <<now, maxRequests, windowMs, baseBackoffMs, historyVars,
                       apiLimiter, apiKey, legacyRequests, dashboard, memoryCache>>

GetWeatherData(lat, lon) ==
    /\ GetWeatherDataFrom("getWeatherData", lat, lon, cache)
    /\ UNCHANGED geo

RefreshWeatherData(lat, lon) ==
    /\ GetWeatherDataFrom("refreshWeatherData", lat, lon,
                          CacheDelete(cache, WeatherKey(lat, lon)))
    /\ UNCHANGED geo

\* getWeatherData from the moment both fetch promises have settled to its end
CompleteWeather(slot, cur, fc) ==
    /\ inflight[slot].op = "weather"
    /\ LET cacheKey == inflight[slot].key
           thrown == WeatherFetchError(cur, fc)
           base == [Event("completeWeather", "none", "error", "none", cacheKey)
                       EXCEPT !.slot = slot, !.cur = cur, !.fc = fc]
       IN  IF thrown # <<>>
           THEN /\ ev' = [base EXCEPT !.error = GetErrorMessage(thrown[1])]
                /\ UNCHANGED cache
           ELSE LET weatherData == WeatherDataOf(cur.body, fc.body, now)
                IN  /\ cache' = CacheSet(cache, cacheKey, weatherData, now)
                    /\ ev' = [base EXCEPT !.outcome = "returned",
                                          !.data = <<weatherData>>]
    /\ inflight' = [inflight EXCEPT ![slot] = Idle]
    /\ geo' = IF geo.phase = "fetching" /\ geo.slot = slot
              THEN GeoSuccessSettles(geo, ev'.outcome, ev'.data)
              ELSE geo
    /\ UNCHANGED <<now, limiterVars, historyVars, apiLimiter, apiKey, legacyRequests, dashboard, memoryCache>>

\* searchCities up to its await
SearchCities(query) ==
    LET validation == ValidateSearchQuery(query)
        out == IsAllowedOutcome("search")
        cacheKey == GenerateCacheKey(SearchPrefix, <<query>>)
        cached == CacheGet(cache, cacheKey, now)
    IN  /\ IF ~validation.isValid
           THEN /\ ev' = Event("searchCities", "none", "error", validation.error,
                               cacheKey)
                /\ UNCHANGED <<requests, violations, inflight>>
           ELSE IF ~out.allowed
           THEN /\ LimiterUpdate("search", out)
                /\ ev' = [Event("searchCities", "search", "error",
                                "Too many search requests. Please wait a moment.",
                                cacheKey)
                             EXCEPT !.limiter = <<out.retryAfter>>]
                /\ UNCHANGED inflight
           ELSE IF cached # <<>>
           THEN /\ LimiterUpdate("search", out)
                /\ ev' = [Event("searchCities", "search", "returned", "none", cacheKey)
                             EXCEPT !.data = cached]
                /\ UNCHANGED inflight
           ELSE /\ FreeSlots # {}
                /\ LimiterUpdate("search", out)
                /\ inflight' = [inflight EXCEPT ![FirstFree] =
                                  [op |-> "search", key |-> cacheKey]]
                /\ ev' = [Event("searchCities", "search", "pending", "none", cacheKey)
                             EXCEPT !.issued = [current |-> 0, forecast |-> 0, geo |-> 1],
                                    !.slot = FirstFree, !.appid = apiKey]
        /\ UNCHANGED <<now, maxRequests, windowMs, baseBackoffMs, historyVars,
                       apiLimiter, apiKey, legacyRequests, dashboard, memoryCache, geo, cache>>

\* searchCities from the moment the fetch promise has settled to its end
CompleteSearch(slot, response) ==
    /\ inflight[slot].op = "search"
    /\ LET cacheKey == inflight[slot].key
           thrown == SearchFetchError(response)
           base == [Event("completeSearch", "none", "error", "none", cacheKey)
                       EXCEPT !.slot = slot, !.cur = response]
       IN  IF thrown # <<>>
           THEN /\ ev' = [base EXCEPT !.error = GetErrorMessage(thrown[1])]
                /\ UNCHANGED cache
           ELSE LET results == [results |-> response.body.list]
                IN  /\ cache' = CacheSet(cache, cacheKey, results, now)
                    /\ ev' = [base EXCEPT !.outcome = "returned", !.data = <<results>>]
    /\ inflight' = [inflight EXCEPT ![slot] = Idle]
    /\ UNCHANGED <<now, limiterVars, historyVars, apiLimiter, apiKey, legacyRequests, dashboard, memoryCache, geo>>

\* WeatherService.clearCache
ClearCache ==
    /\ cache # EmptyCache
    /\ cache' = CacheClear(cache)
    /\ ev' = Event("clearCache", "none", "returned", "none", <<>>)
    /\ UNCHANGED <<now, limiterVars, historyVars, apiLimiter, apiKey, legacyRequests, dashboard, memoryCache, geo, inflight>>

\* variant of clearIdentifier: the violation record is kept
ClearIdentifierKeepsViolation(id) ==
    /\ apiLimiter = "enhanced"
    /\ requests' = [requests EXCEPT ![LimiterKey(id)] = <<>>]
    /\ burst' = IF id = observed THEN FreshBurst ELSE burst
    /\ ev' = Event("clearIdentifier", id, "returned", "none", <<>>)
    /\ UNCHANGED <<now, maxRequests, windowMs, baseBackoffMs, admitted, observed, call,
                   memoryCache, geo, lastSet, violations,
                   last, prev, apiLimiter, apiKey, legacyRequests, dashboard, cache, inflight>>

\* EnhancedRateLimiter.clearIdentifier, called on apiRateLimiter
ClearIdentifier(id) ==
    /\ apiLimiter = "enhanced"
    /\ requests' = [requests EXCEPT ![LimiterKey(id)] = <<>>]
    /\ violations' = [violations EXCEPT ![LimiterKey(id)] = NoViolation]
    /\ burst' = IF id = observed THEN FreshBurst ELSE burst
    /\ ev' = Event("clearIdentifier", id, "returned", "none", <<>>)
    /\ UNCHANGED <<now, maxRequests, windowMs, baseBackoffMs, admitted, observed, call,
                   memoryCache, geo, lastSet,
                   last, prev, apiLimiter, apiKey, legacyRequests, dashboard, cache, inflight>>

\* the state after the modules have loaded, with API_KEY equal to key
InitGateway(key) ==
    /\ now = 0
    /\ maxRequests = ApiMaxRequests
    /\ windowMs = MaxWindow
    /\ baseBackoffMs = 1
    /\ requests = [id \in Identifiers |-> <<>>]
    /\ violations = [id \in Identifiers |-> NoViolation]
    /\ admitted = [id \in Identifiers |-> <<>>]
    /\ observed = "weather"
    /\ burst = FreshBurst
    /\ last = NoCall
    /\ prev = NoCall
    /\ apiLimiter \in {"enhanced", "legacy"}
    /\ apiKey = key
    /\ legacyRequests = [id \in Identifiers |-> <<>>]
    /\ dashboard = NoDashboard
    /\ cache = EmptyCache
    /\ inflight = [slot \in Slots |-> Idle]
    /\ ev = NoEvent
    /\ call = NoApply
    /\ memoryCache = <<>>
    /\ geo = NoGeo
    /\ lastSet = NoSets

Init == InitGateway(ConfiguredKey)

Next ==
    \/ \E c \in CoordInputs : GetWeatherData(c[1], c[2])
    \/ \E c \in CoordInputs : RefreshWeatherData(c[1], c[2])
    \/ \E slot \in Slots, cur \in Responses(CurrentBodies),
          fc \in Responses(ForecastBodies) : CompleteWeather(slot, cur, fc)
    \/ ClearCache
    \/ TickGateway

Spec == Init /\ [][Next]_vars

\* ---- the functions applied on their own, outside the gateway's calls
Apply(fn, args, result) ==
    /\ call' = [fn |-> fn, args |-> args, result |-> result, time |-> now]
    /\ UNCHANGED <<now, limiterVars, admitted, observed, burst, last, prev, lastSet,
                   gatewayVars>>

\* latitudes and longitudes around the range bounds, and NaN
LatInputs == {Num(v) : v \in (-92..-88) \cup {0} \cup (88..92)} \cup {NaN}
LonInputs == {Num(v) : v \in (-182..-178) \cup {0} \cup (178..182)} \cup {NaN}

ApplyValidateCoordinates(lat, lon) ==
    Apply("validateCoordinates", <<lat, lon>>, ValidateCoordinates(lat, lon))

\* forecast lists: every list of up to MaxSamples samples over two dates and
\* three temperatures, a list spanning seven dates, and eight samples of one
\* day with temps 10, 15, 12, 18, 20, 16, 14, 11
MaxSamples == 3
SampleInputs ==
    {Sample(date, 9, temp, TRUE) : date \in 1..2, temp \in {-25, 105, 156}}
SevenDays ==
    [i \in 1..8 |-> Sample(<<1, 2, 1, 3, 4, 5, 6, 7>>[i], 9, 100 + 10 * i, TRUE)]
EightSamples ==
    [i \in 1..8 |-> Sample(1, 3 * (i - 1), <<100, 150, 120, 180, 200, 160, 140, 110>>[i], TRUE)]
ForecastLists ==
    UNION {[1..n -> SampleInputs] : n \in 0..MaxSamples}
        \cup {SevenDays, EightSamples}

ApplyDailyForecasts(list) == Apply("dailyForecasts", <<list>>, DailyForecasts(list))

\* non-2xx responses: the statuses the mapping names and one it does not,
\* with an empty body, a plain text, and a text that contains "401"
ErrorStatuses == {401, 404, 429, 500}
ErrorTexts == {EmptyText, Text("city not found", {}), Text("upstream said 401", {"401"})}
ErrorResponses ==
    {HttpResponse(status, text, NoBody) : status \in ErrorStatuses, text \in ErrorTexts}

\* the message getWeatherData rethrows when its try block throws
ApplyWeatherError(cur, fc) ==
    /\ WeatherFetchError(cur, fc) # <<>>
    /\ Apply("getWeatherData.catch", <<cur, fc>>,
             GetErrorMessage(WeatherFetchError(cur, fc)[1]))

\* the message searchCities rethrows when its try block throws
ApplySearchError(response) ==
    /\ SearchFetchError(response) # <<>>
    /\ Apply("searchCities.catch", <<response>>,
             GetErrorMessage(SearchFetchError(response)[1]))

NextFn ==
    \/ \E lat \in LatInputs, lon \in LonInputs : ApplyValidateCoordinates(lat, lon)
    \/ \E list \in ForecastLists : ApplyDailyForecasts(list)
    \/ \E cur \in ErrorResponses \cup Responses(CurrentBodies),
          fc \in ErrorResponses \cup Responses(ForecastBodies) : ApplyWeatherError(cur, fc)
    \/ \E response \in ErrorResponses \cup Responses(SearchBodies) :
          ApplySearchError(response)

SpecFn == Init /\ [][NextFn]_vars

\* ---- the caches used directly
\* over: for a set, whether the key held another value; for a get, whether it
\* directly follows such a set of its key at the same instant
CacheStep(fn, args, result, over) ==
    /\ call' = [fn |-> fn, args |-> args, result |-> result, time |-> now,
                over |-> over]
    /\ UNCHANGED <<now, limiterVars, admitted, observed, burst, last, prev,
                   apiLimiter, apiKey, legacyRequests, dashboard, inflight, ev, geo>>

FollowsOverwrite(set, key) ==
    call.fn = set /\ call.args[1] = key /\ call.time = now /\ call.over

CacheUtilsSet(key, data) ==
    /\ cache' = CacheSet(cache, key, data, now)
    /\ lastSet' = [lastSet EXCEPT !["cacheUtils", key] =
                      <<[data |-> data, time |-> now, ttl |-> CacheDuration]>>]
    /\ CacheStep("cacheUtils.set", <<key, data>>, <<>>,
                 key \in DOMAIN cache /\ cache[key].data # data)
    /\ UNCHANGED memoryCache

CacheUtilsGet(key) ==
    /\ CacheStep("cacheUtils.get", <<key>>, CacheGet(cache, key, now),
                 FollowsOverwrite("cacheUtils.set", key))
    /\ UNCHANGED <<cache, memoryCache, lastSet>>

CacheUtilsDelete(key) ==
    /\ cache' = CacheDelete(cache, key)
    /\ CacheStep("cacheUtils.delete", <<key>>, <<>>, FALSE)
    /\ UNCHANGED <<memoryCache, lastSet>>

MemorySet(key, data, ttl) ==
    /\ memoryCache' = MemoryCacheSet(memoryCache, key, data, ttl, now, MemoryMaxSize)
    /\ lastSet' = [lastSet EXCEPT !["MemoryCache", key] =
                      <<[data |-> data, time |-> now, ttl |-> ttl]>>]
    /\ CacheStep("MemoryCache.set", <<key, data>>, <<>>,
                 \E i \in DOMAIN memoryCache :
                     memoryCache[i].key = key /\ memoryCache[i].data # data)
    /\ UNCHANGED cache

MemoryGet(key) ==
    LET got == MemoryCacheGet(memoryCache, key, now)
    IN  /\ memoryCache' = got.cache
        /\ CacheStep("MemoryCache.get", <<key>>, got.value,
                     FollowsOverwrite("MemoryCache.set", key))
        /\ UNCHANGED <<cache, lastSet>>

NextCache ==
    \/ \E key \in GatewayCacheKeys, data \in CacheValues : CacheUtilsSet(key, data)
    \/ \E key \in GatewayCacheKeys : CacheUtilsGet(key)
    \/ \E key \in GatewayCacheKeys : CacheUtilsDelete(key)
    \/ \E key \in CacheKeys, data \in CacheValues, ttl \in CacheTtls :
          MemorySet(key, data, ttl)
    \/ \E key \in CacheKeys : MemoryGet(key)
    \/ TickGateway

SpecCache == Init /\ [][NextCache]_vars

\* ---- both identifiers on the one limiter instance: searches and weather
\* calls interleaved, with clearIdentifier
SharedCoordInputs == { <<Num(51), Num(0)>>, <<Num(91), Num(0)>> }
\* a query too short once sanitized and a valid one
SharedQueries == { <<"a", "!">>, <<"a", "b">> }
SharedCurrent == { r \in Responses(CurrentBodies) : r.kind = "network" }
SharedForecast == { r \in Responses(ForecastBodies) : Ok(r) /\ Len(r.body.list) = 3 }
SharedSearch ==
    { r \in Responses(SearchBodies) :
        r.kind = "network" \/ (Ok(r) /\ r.body.list # <<>>) }

\* ---- the limiter with clearIdentifier among its calls
\* (an identifier is cleared while the allowed calls on record for it are at
\* most maxRequests, which bounds that record)
NextClear ==
    \/ \E id \in Identifiers : CheckRequest(id)
    \/ \E id \in Identifiers : Len(admitted[id]) <= maxRequests /\ ClearIdentifier(id)
    \/ TickGateway

InitClear == InitRL /\ maxRequests <= 2

SpecClear == InitClear /\ [][NextClear]_vars

\* ---- the two limiter classes side by side: an EnhancedRateLimiter (requests,
\* violations) and a legacy RateLimiter (legacyRequests) built with the same
\* maxRequests and windowMs
LimiterCall(fn, args, result) ==
    /\ call' = [fn |-> fn, args |-> args, result |-> result, time |-> now]
    /\ ev' = NoEvent
    /\ UNCHANGED <<now, maxRequests, windowMs, baseBackoffMs, admitted, observed, burst,
                   last, prev, lastSet, apiLimiter, apiKey, dashboard, cache, inflight,
                   memoryCache, geo>>

\* isAllowed(id) called on both instances at the same instant
IsAllowed(id) ==
    LET out == CheckRequestOutcome(requests[LimiterKey(id)], violations[LimiterKey(id)],
                                   now, maxRequests, windowMs, baseBackoffMs)
        legacy == LegacyIsAllowedOutcome(legacyRequests[id], NoViolation, now,
                                         maxRequests, windowMs)
    IN  /\ LimiterUpdate(id, out)
        /\ legacyRequests' = [legacyRequests EXCEPT ![id] = legacy.requests]
        /\ LimiterCall("isAllowed", <<id>>,
                       [enhanced |-> out.allowed, legacy |-> legacy.allowed])

\* EnhancedRateLimiter.getRemainingRequests: this.checkRequest(identifier).remaining
GetRemainingRequests(id) ==
    LET out == CheckRequestOutcome(requests[LimiterKey(id)], violations[LimiterKey(id)],
                                   now, maxRequests, windowMs, baseBackoffMs)
    IN  /\ LimiterUpdate(id, out)
        /\ LimiterCall("getRemainingRequests", <<"enhanced", id>>, out.remaining)
        /\ UNCHANGED legacyRequests

\* RateLimiter.getRemainingRequests of the legacy class
LegacyGetRemainingRequests(id) ==
    /\ LimiterCall("getRemainingRequests", <<"legacy", id>>,
                   Max(0, maxRequests - Len(ValidRequests(legacyRequests[id], now, windowMs))))
    /\ UNCHANGED <<requests, violations, legacyRequests>>

NextQuery ==
    \/ \E id \in Identifiers : IsAllowed(id)
    \/ \E id \in Identifiers : GetRemainingRequests(id)
    \/ \E id \in Identifiers : LegacyGetRemainingRequests(id)
    \/ TickGateway

InitQuery == InitClear /\ observed = "weather"

SpecQuery == InitQuery /\ [][NextQuery]_vars

\* ---- the deprecated RateLimiter of part_004, an EnhancedRateLimiter built
\* with the default baseBackoffMs, beside the legacy RateLimiter
DefaultBackoff == 1   \* the default baseBackoffMs, scaled down from 1000 ms

InitCompat == InitRL /\ observed = "weather" /\ baseBackoffMs = DefaultBackoff

NextCompat ==
    \/ \E id \in Identifiers : IsAllowed(id)
    \/ Tick

SpecCompat == InitCompat /\ [][NextCompat]_vars

NextShared ==
    \/ \E c \in SharedCoordInputs : GetWeatherData(c[1], c[2])
    \/ \E query \in SharedQueries : SearchCities(query)
    \/ \E slot \in Slots, cur \in SharedCurrent, fc \in SharedForecast :
          CompleteWeather(slot, cur, fc)
    \/ \E slot \in Slots, response \in SharedSearch : CompleteSearch(slot, response)
    \/ \E id \in Identifiers : ClearIdentifier(id)
    \/ TickGateway

SpecShared == Init /\ [][NextShared]_vars


\* getCurrentLocationWeather up to the return of getCurrentPosition
GetCurrentLocationWeather(supported) ==
    /\ geo.phase \in {"idle", "resolved"}
    /\ geo' = IF ~supported
              THEN GeoResolve([NoGeo EXCEPT !.position = "unsupported"], <<>>)
              ELSE [NoGeo EXCEPT !.phase = "locating"]
    /\ UNCHANGED <<now, limiterVars, historyVars, apiLimiter, apiKey, legacyRequests, dashboard, cache, inflight, ev,
                   memoryCache>>

\* the success callback, up to the await of getWeatherData or to its end
GeoSuccess(lat, lon) ==
    /\ geo.phase = "locating"
    /\ GetWeatherDataFrom("getWeatherData", lat, lon, cache)
    /\ geo' = IF ev'.outcome = "pending"
              THEN [geo EXCEPT !.phase = "fetching", !.position = "ok",
                               !.slot = ev'.slot]
              ELSE GeoSuccessSettles([geo EXCEPT !.position = "ok"],
                                     ev'.outcome, ev'.data)

\* the error callback
GeoError(code) ==
    /\ geo.phase = "locating"
    /\ geo' = GeoResolve([geo EXCEPT !.position = code], <<>>)
    /\ UNCHANGED <<now, limiterVars, historyVars, apiLimiter, apiKey, legacyRequests, dashboard, cache, inflight, ev,
                   memoryCache>>

GeoCoordInputs == { <<Num(51), Num(0)>> }
GeoCurrent == { r \in Responses(CurrentBodies) : r.kind = "network" \/ Ok(r) }
GeoForecast == { r \in Responses(ForecastBodies) : Ok(r) /\ Len(r.body.list) = 3 }

NextGeo ==
    \/ \E supported \in BOOLEAN : GetCurrentLocationWeather(supported)
    \/ \E c \in GeoCoordInputs : GeoSuccess(c[1], c[2])
    \/ \E code \in GeoErrorCodes : GeoError(code)
    \/ \E slot \in Slots, cur \in GeoCurrent, fc \in GeoForecast :
          CompleteWeather(slot, cur, fc)
    \/ TickGateway

SpecGeo == Init /\ [][NextGeo]_vars

\* ---- the gateway loaded without a provider key
ApplyHasAPIKey == Apply("hasAPIKey", <<apiKey>>, HasAPIKey(apiKey))

\* what the provider answers to a request without a valid key
KeylessResponses(bodies) ==
    { r \in ErrorResponses \cup Responses(bodies) :
        r.kind = "network" \/ (r.status = 401 /\ r.text = EmptyText) }

InitNoKey == InitGateway(MissingKey)

NextNoKey ==
    \/ \E c \in GeoCoordInputs : GetWeatherData(c[1], c[2])
    \/ \E query \in SharedQueries : SearchCities(query)
    \/ \E slot \in Slots, cur \in KeylessResponses(CurrentBodies),
          fc \in KeylessResponses(ForecastBodies) : CompleteWeather(slot, cur, fc)
    \/ \E slot \in Slots, response \in KeylessResponses(SearchBodies) :
          CompleteSearch(slot, response)
    \/ ApplyHasAPIKey
    \/ TickGateway

SpecNoKey == InitNoKey /\ [][NextNoKey]_vars

\* ---- WeatherDashboard: mounting, showing a location, the interval, unmounting
DashboardStep(d) ==
    /\ dashboard' = d
    /\ UNCHANGED <<now, limiterVars, historyVars, apiLimiter, apiKey, legacyRequests, cache, inflight,
                   ev, memoryCache, geo>>

\* the first render (useState(null)) and the effect with the empty dependency
\* list, which runs once and creates the interval callback in that render
Mount ==
    /\ ~dashboard.mounted
    /\ DashboardStep([NoDashboard EXCEPT !.mounted = TRUE, !.op = "mount",
                                         !.recentSearches = dashboard.recentSearches,
                                         !.closure = NoDashboard.weatherData,
                                         !.timer = <<now + RefreshInterval>>])

\* setWeatherData(data) in loadDefaultLocation or handleLocationSelect
SetWeatherData(location) ==
    /\ dashboard.mounted
    /\ DashboardStep([dashboard EXCEPT !.weatherData = <<location>>, !.op = "set"])

\* the interval callback
IntervalCallback ==
    /\ dashboard.mounted
    /\ dashboard.timer = <<now>>
    /\ DashboardStep([dashboard EXCEPT !.op = "interval",
                                       !.refreshed = dashboard.closure,
                                       !.timer = <<now + RefreshInterval>>])

\* the effect's cleanup: clearInterval(interval)
Unmount ==
    /\ dashboard.mounted
    /\ DashboardStep([dashboard EXCEPT !.mounted = FALSE, !.op = "unmount",
                                       !.timer = <<>>])

\* time passes, a due interval callback first
DashboardTick ==
    /\ IF dashboard.timer = <<>> THEN TRUE ELSE now < dashboard.timer[1]
    /\ TickGateway

NextDashboard ==
    \/ Mount
    \/ \E location \in Locations : SetWeatherData(location)
    \/ IntervalCallback
    \/ Unmount
    \/ DashboardTick

SpecDashboard == Init /\ [][NextDashboard]_vars

\* ---- recent searches. Coordinates are in units of 0.0001 degrees; the
\* second London lies 0.0001 degrees north of the first
Place(name, lat, lon) == [name |-> name, lat |-> lat, lon |-> lon]
SearchResults ==
    { Place("London", 515074, -1278), Place("London", 515075, -1278),
      Place("Paris", 488566, 23522), Place("Tokyo", 356762, 1396503),
      Place("Berlin", 525200, 134050), Place("Rome", 419028, 124964),
      Place("Oslo", 599139, 107522) }

\* the update of the recent searches in handleLocationSelect, which
\* weatherStorage.addRecentSearch makes in the same way
SelectLocation(search) ==
    DashboardStep([dashboard EXCEPT
        !.op = "addRecentSearch",
        !.weatherData = <<search.name>>,
        !.recentSearches = AddRecentSearch(dashboard.recentSearches, search)])

NextRecent ==
    \/ \E search \in SearchResults : SelectLocation(search)

SpecRecent == Init /\ [][NextRecent]_vars

\* ---- a refresh made while a getWeatherData call for the same coordinates
\* awaits its responses. getWeatherData is called when nothing is in flight and
\* the cache holds no entry, so its fetch takes slot 1; refreshWeatherData is
\* called while that fetch is pending, so its fetch takes slot 2
RefreshCoord == <<Num(51), Num(0)>>
RefreshCurrent == { r \in Responses(CurrentBodies) : r.kind = "network" \/ Ok(r) }
RefreshForecast ==
    { r \in Responses(ForecastBodies) : Ok(r) /\ Len(r.body.list) \in {0, 3} }

GetWeatherDataFirst ==
    /\ \A slot \in Slots : inflight[slot].op = "idle"
    /\ cache = EmptyCache
    /\ GetWeatherData(RefreshCoord[1], RefreshCoord[2])

RefreshWhilePending ==
    /\ inflight[1].op = "weather"
    /\ inflight[2].op = "idle"
    /\ RefreshWeatherData(RefreshCoord[1], RefreshCoord[2])

NextRefresh ==
    \/ GetWeatherDataFirst
    \/ RefreshWhilePending
    \/ \E slot \in Slots, cur \in RefreshCurrent, fc \in RefreshForecast :
          CompleteWeather(slot, cur, fc)
    \/ ClearCache
    \/ TickGateway

SpecRefresh == Init /\ [][NextRefresh]_vars

\* ---- searches alone, with queries that differ in letter case only
SearchQueries == { <<"a", "b">>, <<"A", "b">>, <<"a">> }

NextSearch ==
    \/ \E query \in SearchQueries : SearchCities(query)
    \/ \E slot \in Slots, response \in Responses(SearchBodies) :
          CompleteSearch(slot, response)
    \/ ClearCache
    \/ TickGateway

SpecSearch == Init /\ [][NextSearch]_vars

\* ------------------------------------------------------------------ claims
Count(seq, x) == Cardinality({i \in DOMAIN seq : seq[i] = x})
Denied(r) == r.called /\ ~r.allowed

\* C1: sliding-window cap. For every identifier, the allowed calls whose
\* timestamp lies in (now - W, now] never number more than N, and the stored
\* timestamp list never holds more than N entries.
C1_SlidingWindowCap ==
    \A id \in Identifiers :
        /\ Len(admitted[id]) <= maxRequests
        /\ Len(requests[id]) <= maxRequests

C1_Witness ==
    /\ maxRequests = 2
    /\ now > windowMs
    /\ Len(admitted[observed]) = maxRequests
    /\ Denied(last)
    /\ admitted[observed][1] > 0

\* C2: for an identifier with no recorded state, the first N calls made within
\* one window are all allowed, and the next call, made at the same instant as
\* the N-th, is denied with retryAfter > 0.
C2_FirstNAllowedThenDenied ==
    /\ (burst.active /\ burst.n >= 1 /\ burst.n <= maxRequests) => last.allowed
    /\ (burst.active /\ burst.n = maxRequests + 1 /\ last.time = prev.time)
          => (Denied(last) /\ last.retryAfter > 0)

C2_Witness ==
    /\ maxRequests = 3
    /\ burst.active /\ burst.n = maxRequests + 1
    /\ last.time = prev.time
    /\ last.time > burst.first
    /\ Denied(last)

\* C3: re-admission after the window. When the base backoff is at most W,
\* after N allowed calls and one denied call at time t, with no later call,
\* the call at time t + W + 1 is allowed.
C3_ReadmittedAfterWindow ==
    (/\ Denied(prev) /\ prev.run = 1
     /\ last.called /\ last.time = prev.time + windowMs + 1
     /\ baseBackoffMs <= windowMs)
        => last.allowed

C3_Witness ==
    /\ maxRequests = 3
    /\ Denied(prev) /\ prev.run = 1
    /\ last.called /\ last.time = prev.time + windowMs + 1
    /\ baseBackoffMs <= windowMs
    /\ last.allowed

\* C4 as claimed: across consecutive denied calls of one identifier the
\* retryAfter never decreases, and it strictly increases for a denial made
\* after the previous backoff has ended.
C4_RetryAfterNeverDecreases ==
    (Denied(prev) /\ Denied(last) /\ violations[observed].count <= BACKOFF_EXP_CAP + 1)
        => /\ last.retryAfter >= prev.retryAfter
           /\ (last.time >= prev.time + prev.retryAfter
                 => last.retryAfter > prev.retryAfter)

\* C4 as amended: across consecutive denied calls of one identifier, a denial
\* made while the previous denial's backoff is still running returns the time
\* left of that backoff (the previous retryAfter minus the time elapsed), and a
\* denial made after that backoff has ended returns a strictly larger retryAfter.
C4_BackoffCountsDownThenEscalates ==
    (Denied(prev) /\ Denied(last) /\ violations[observed].count <= BACKOFF_EXP_CAP + 1)
        => IF last.time < prev.time + prev.retryAfter
           THEN last.retryAfter = prev.retryAfter - (last.time - prev.time)
           ELSE last.retryAfter > prev.retryAfter

C4_Witness ==
    /\ Denied(prev) /\ Denied(last)
    /\ last.time >= prev.time + prev.retryAfter
    /\ last.retryAfter > prev.retryAfter
    /\ violations[observed].count = 2

\* C5: identifier independence. A step that passes identifier a to the
\* limiter (checkRequest through isAllowed, or clearIdentifier) leaves the
\* request timestamps and the violation record of every other identifier as
\* they were; and a weather call is denied only when the weather identifier's
\* own timestamps fill the window or its own backoff is running, whatever the
\* 'search' identifier has used up.
C5_OwnLimit(id) ==
    \/ Cardinality({i \in DOMAIN requests[id] : now - requests[id][i] < windowMs})
            >= maxRequests
    \/ /\ violations[id].present
       /\ now < violations[id].lastViolation
                    + baseBackoffMs * 2^Min(violations[id].count - 1, BACKOFF_EXP_CAP)

C5_IdentifierIndependence ==
    [][/\ \A b \in Identifiers :
            ev'.id # b => (requests'[b] = requests[b] /\ violations'[b] = violations[b])
       /\ (ev'.op = "getWeatherData" /\ ev'.id = "weather" /\ ev'.outcome = "error")
            => C5_OwnLimit("weather")
      ]_vars

C5_Witness ==
    /\ ev.op = "getWeatherData" /\ ev.id = "weather" /\ ev.outcome = "pending"
    /\ Len(requests["search"]) >= maxRequests
    /\ \A i \in DOMAIN requests["search"] : now - requests["search"][i] < windowMs
    /\ apiLimiter = "enhanced" => violations["search"].present

\* C6: effect of an allowed call. It appends exactly one timestamp, now, for
\* the identifier, removes the identifier's violation record and returns
\* remaining = N - (timestamps of the identifier inside the window, the new one
\* included); the calls of a first burst return N-1, N-2, ..., 0; a denied call
\* returns remaining = 0.
AllowedCallOn(id) == now' = now /\ admitted'[id] = Append(admitted[id], now)

C6_AllowedCallEffect ==
    /\ [](/\ Denied(last) => last.remaining = 0
          /\ (burst.active /\ burst.n >= 1 /\ burst.n <= maxRequests)
                => last.remaining = maxRequests - burst.n)
    /\ [][\A id \in Identifiers : AllowedCallOn(id) =>
            /\ Count(requests'[id], now) = Count(requests[id], now) + 1
            /\ \A t \in 0..MaxTime :
                   t # now => Count(requests'[id], t) <= Count(requests[id], t)
            /\ requests'[id][Len(requests'[id])] = now
            /\ ~violations'[id].present
            /\ id = observed =>
                  last'.remaining = maxRequests - Len(InWindow(requests'[id], now))
         ]_vars

C6_Witness ==
    /\ Denied(prev)
    /\ last.called /\ last.allowed /\ last.time = now
    /\ last.remaining = maxRequests - 2
    /\ ~violations[observed].present

\* ---- the gateway
Passed(e) == e.outcome \in {"returned", "pending"}
OneOfEach == [current |-> 1, forecast |-> 1, geo |-> 0]

\* C7: gateway cache hit. A getWeather call that passes validation and the
\* rate limiter and finds no entry for its coordinates issues exactly one
\* current-conditions and one forecast request; one that finds an entry
\* stored less than the cache TTL ago issues no request and returns the
\* stored snapshot; a completion issues no further request (no retries).
C7_ColdMissThenCacheHit ==
    /\ (ev.op = "getWeatherData" /\ Passed(ev) /\ ev.entry = "absent")
          => (ev.issued = OneOfEach /\ ev.outcome = "pending")
    /\ (ev.op = "getWeatherData" /\ Passed(ev) /\ ev.entry = "fresh")
          => /\ ev.issued = NoIssued
             /\ ev.outcome = "returned"
             /\ ev.key \in DOMAIN cache
             /\ ev.data = <<cache[ev.key].data>>
    /\ ev.op = "completeWeather" => ev.issued = NoIssued

C7_Witness ==
    /\ ev.op = "getWeatherData" /\ ev.entry = "fresh"
    /\ ev.outcome = "returned" /\ ev.issued = NoIssued
    /\ ev.data # <<>> /\ ev.data[1].forecast # <<>>
    /\ now > ev.data[1].lastUpdated

\* C8 as claimed: every refreshWeather invocation (with valid coordinates)
\* issues a new current-conditions request and a new forecast request.
C8_RefreshAlwaysFetches ==
    (ev.op = "refreshWeatherData" /\ ev.id = "weather") => ev.issued = OneOfEach

\* C8 as amended: every refreshWeather invocation that passes validation and
\* is admitted by the rate limiter issues a new current-conditions request and
\* a new forecast request, even when an unexpired cache entry exists for that
\* key; an invocation that is rejected issues none.
C8_AdmittedRefreshFetches ==
    ev.op = "refreshWeatherData"
        => IF ev.outcome = "error"
           THEN ev.issued = NoIssued
           ELSE ev.outcome = "pending" /\ ev.issued = OneOfEach

C8_Witness ==
    /\ ev.op = "refreshWeatherData" /\ ev.entry = "fresh"
    /\ ev.outcome = "pending" /\ ev.issued = OneOfEach
    /\ ev.key \notin DOMAIN cache

\* C9: no caching on failure. When either provider request fails (transport
\* error or non-2xx status) or building the snapshot throws, the call fails
\* with an error and the cache is left as it was; an entry of the cache is
\* only ever written by a completion whose two responses were successful, from
\* those two responses.
C9_Failed(cur, fc) ==
    \/ cur.kind = "network" \/ fc.kind = "network"
    \/ cur.status < 200 \/ cur.status > 299
    \/ fc.status < 200 \/ fc.status > 299
    \/ ~cur.body.valid \/ ~fc.body.valid
    \/ \E i \in DOMAIN fc.body.list : ~fc.body.list[i].weather

C9_NoCachingOnFailure ==
    [][/\ (ev'.op = "completeWeather" /\ C9_Failed(ev'.cur, ev'.fc))
            => (ev'.outcome = "error" /\ ev'.data = <<>> /\ cache' = cache)
       /\ \A k \in DOMAIN cache' :
            (k \notin DOMAIN cache \/ cache'[k] # cache[k])
                => /\ ev'.op = "completeWeather" /\ ev'.key = k
                   /\ ~C9_Failed(ev'.cur, ev'.fc)
                   /\ cache'[k].data.location.name = ev'.cur.body.name
                   /\ cache'[k].data.forecast = DailyForecasts(ev'.fc.body.list)
      ]_vars

C9_Witness ==
    /\ ev.op = "completeWeather" /\ ev.outcome = "error"
    /\ ev.cur.kind = "http" /\ ev.cur.status = 200
    /\ ev.fc.kind = "http" /\ ev.fc.status = 200
    /\ \E i \in DOMAIN ev.fc.body.list : ~ev.fc.body.list[i].weather
    /\ ev.key \notin DOMAIN cache

\* C10 as claimed: when both responses are successful and the forecast list
\* is empty, getWeather fails and no snapshot is returned or cached.
C10_EmptyForecastFails ==
    (/\ ev.op = "completeWeather"
     /\ ev.cur.kind = "http" /\ ev.cur.status = 200
     /\ ev.fc.kind = "http" /\ ev.fc.status = 200
     /\ ev.fc.body.valid /\ ev.fc.body.list = <<>>)
        => /\ ev.outcome = "error"
           /\ ev.data = <<>>
           /\ ev.key \notin DOMAIN cache \/ cache[ev.key].data.forecast # <<>>

\* C11: rejected calls have no side effects beyond limiter bookkeeping. A
\* getWeather call whose coordinates are out of range or NaN fails without
\* the limiter being consulted (its timestamps and violation records stay as
\* they were); a getWeather call that fails validation or is denied issues no
\* provider request and leaves the cache and the calls in flight unchanged,
\* also when an unexpired entry for the key exists.
C11_BadCoordinates(key) ==
    \E c \in CoordInputs :
        /\ key = WeatherKey(c[1], c[2])
        /\ \/ c[1].nan \/ c[2].nan
           \/ c[1].v < -90 \/ c[1].v > 90 \/ c[2].v < -180 \/ c[2].v > 180

C11_RejectedCallsHaveNoEffect ==
    [][ev'.op = "getWeatherData" =>
          /\ C11_BadCoordinates(ev'.key)
                => /\ ev'.outcome = "error"
                   /\ ev'.id = "none"
                   /\ requests' = requests /\ violations' = violations
          /\ ev'.outcome = "error"
                => (ev'.issued = NoIssued /\ cache' = cache /\ inflight' = inflight)
      ]_vars

C11_Witness ==
    /\ ev.op = "getWeatherData" /\ ev.outcome = "error" /\ ev.id = "weather"
    /\ ev.entry = "fresh" /\ ev.key \in DOMAIN cache
    /\ ev.issued = NoIssued

\* C12 as claimed: when the limiter denies 'weather', the error getWeather
\* throws carries a retryAfter equal to the retryAfter the limiter computed
\* for that denial.
C12_ErrorCarriesRetryAfter ==
    (ev.op = "getWeatherData" /\ ev.id = "weather" /\ ev.outcome = "error")
        => (ev.retryAfter # <<>> /\ ev.retryAfter = ev.limiter)

\* C13 as claimed: validateCoordinates returns isValid = true exactly when
\* -90 <= lat <= 90 and -180 <= lon <= 180; otherwise the latitude message
\* whenever lat is out of range, and the longitude message when only lon is.
C13_LatOut(lat) == ~lat.nan /\ (lat.v < -90 \/ lat.v > 90)
C13_LonOut(lon) == ~lon.nan /\ (lon.v < -180 \/ lon.v > 180)
C13_InRange(lat, lon) ==
    /\ ~lat.nan /\ ~lon.nan
    /\ -90 <= lat.v /\ lat.v <= 90 /\ -180 <= lon.v /\ lon.v <= 180

C13_RangeMessages ==
    call.fn = "validateCoordinates" =>
        LET lat == call.args[1]
            lon == call.args[2]
        IN  /\ call.result.isValid <=> C13_InRange(lat, lon)
            /\ C13_LatOut(lat)
                 => call.result.error = "Latitude must be between -90 and 90 degrees"
            /\ (C13_LonOut(lon) /\ ~C13_LatOut(lat) /\ ~lat.nan)
                 => call.result.error = "Longitude must be between -180 and 180 degrees"

\* C13 as amended: for two numbers that are not NaN, isValid = true exactly
\* when both are in range (bounds included), the latitude message whenever
\* lat is out of range and the longitude message when only lon is; when
\* either is NaN, isValid = false with the message for invalid numbers.
C13_RangeMessagesOfNumbers ==
    call.fn = "validateCoordinates" =>
        LET lat == call.args[1]
            lon == call.args[2]
        IN  /\ call.result.isValid <=> C13_InRange(lat, lon)
            /\ (lat.nan \/ lon.nan)
                 => call.result.error = "Coordinates must be valid numbers"
            /\ (C13_LatOut(lat) /\ ~lon.nan)
                 => call.result.error = "Latitude must be between -90 and 90 degrees"
            /\ (C13_LonOut(lon) /\ ~lat.nan /\ ~C13_LatOut(lat))
                 => call.result.error = "Longitude must be between -180 and 180 degrees"

C13_Witness ==
    /\ call.fn = "validateCoordinates"
    /\ call.args = <<Num(-90), Num(181)>>
    /\ ~call.result.isValid

\* C14: cache round-trip and expiry, for cacheUtils (ttl = CACHE_DURATION)
\* and for MemoryCache (explicit ttl > 0). A get of a key directly after
\* set(key, v), at the same instant, returns v, also when the key held another
\* value; a get of a key made more than the ttl after the latest set of that
\* key returns absent.
C14_GetAfterSet(name) ==
    LET get == name \o ".get"
        set == name \o ".set"
        key == call'.args[1]
        latest == lastSet[name, key]
    IN  (call'.fn = get /\ now' = now /\ call'.time = now) =>
            /\ (call.fn = set /\ call.args[1] = key /\ call.time = now)
                  => call'.result = <<call.args[2]>>
            /\ (latest # <<>> /\ now - latest[1].time > latest[1].ttl)
                  => call'.result = <<>>

C14_RoundTripAndExpiry ==
    [][\A name \in CacheNames : C14_GetAfterSet(name)]_vars

C14_Witness ==
    /\ call.fn = "cacheUtils.get" /\ call.time = now /\ call.over
    /\ call.result = <<lastSet["cacheUtils", call.args[1]][1].data>>
    /\ \E key \in CacheKeys :
         /\ lastSet["MemoryCache", key] # <<>>
         /\ now - lastSet["MemoryCache", key][1].time > lastSet["MemoryCache", key][1].ttl
         /\ key \notin MemoryKeys(memoryCache)

\* C15 as claimed: a get of the gateway cache that finds the entry of its
\* key expired returns absent and removes the entry, so that after a get that
\* returned absent the store holds no entry for the key.
C15_StaleEntryEvicted ==
    (call.fn = "cacheUtils.get" /\ call.result = <<>>)
        => call.args[1] \notin DOMAIN cache

\* C16 as claimed: a searchPlaces call that passes validation and the limiter
\* while the cache holds an unexpired entry stored for a query that differs
\* from its own in letter case only is served from the cache: it issues no
\* geocoding request.
C16_Lower(str) == [i \in DOMAIN str |-> IF str[i] = "A" THEN "a" ELSE str[i]]
C16_SearchKey(query) == SearchPrefix \o <<"_">> \o query

C16_CaseInsensitiveSearchKey ==
    \A query, other \in SearchQueries :
        (/\ ev.op = "searchCities" /\ Passed(ev)
         /\ ev.key = C16_SearchKey(query)
         /\ C16_Lower(other) = C16_Lower(query)
         /\ C16_SearchKey(other) \in DOMAIN cache
         /\ now - cache[C16_SearchKey(other)].timestamp < CacheDuration)
            => (ev.issued = NoIssued /\ ev.outcome = "returned")

\* ---- forecast aggregation
C17_Dates(list) == {list[p].dt_txt[1] : p \in DOMAIN list}
\* position p holds the i-th distinct date of the list, in first-seen order
C17_FirstSeenAt(list, p, i) ==
    /\ \A q \in 1..(p - 1) : list[q].dt_txt[1] # list[p].dt_txt[1]
    /\ Cardinality({list[q].dt_txt[1] : q \in 1..(p - 1)}) = i - 1

\* C17: forecast aggregation shape. The forecast has one entry for each of
\* the first 5 distinct dates of the list, in first-seen order, and no other:
\* its length is the number of distinct dates capped at 5, and its i-th entry
\* carries the i-th distinct date; no two entries carry the same date.
C17_FirstFiveDates ==
    call.fn = "dailyForecasts" =>
        LET list == call.args[1]
            forecast == call.result
        IN  /\ Len(forecast) = Min(Cardinality(C17_Dates(list)), 5)
            /\ \A i \in DOMAIN forecast :
                 \E p \in DOMAIN list :
                    /\ list[p].dt_txt[1] = forecast[i].date
                    /\ C17_FirstSeenAt(list, p, i)
            /\ \A i, j \in DOMAIN forecast :
                 forecast[i].date = forecast[j].date => i = j

C17_Witness ==
    /\ call.fn = "dailyForecasts"
    /\ Cardinality(C17_Dates(call.args[1])) = 7
    /\ Len(call.result) = 5
    /\ [i \in 1..5 |-> call.result[i].date] = <<1, 2, 3, 4, 5>>

\* Math.round: r is the rounding of x tenths, halves rounded up
C18_Rounds(x, r) == 10 * r - 5 <= x /\ x < 10 * r + 5

\* C18: forecast aggregation values. Every entry's maxTemp and minTemp are
\* the rounded maximum and minimum of the temperatures of all samples of the
\* entry's date, contiguous in the list or not, so that minTemp <= maxTemp.
C18_DailyExtremes ==
    call.fn = "dailyForecasts" =>
        LET list == call.args[1]
            forecast == call.result
        IN  \A i \in DOMAIN forecast :
               LET ofDate == {p \in DOMAIN list : list[p].dt_txt[1] = forecast[i].date}
               IN  /\ \E p \in ofDate :
                        /\ \A q \in ofDate : list[q].temp <= list[p].temp
                        /\ C18_Rounds(list[p].temp, forecast[i].maxTemp)
                   /\ \E p \in ofDate :
                        /\ \A q \in ofDate : list[q].temp >= list[p].temp
                        /\ C18_Rounds(list[p].temp, forecast[i].minTemp)
                   /\ forecast[i].minTemp <= forecast[i].maxTemp

C18_Witness ==
    /\ call.fn = "dailyForecasts"
    /\ [p \in DOMAIN call.args[1] |-> call.args[1][p].temp]
          = <<100, 150, 120, 180, 200, 160, 140, 110>>
    /\ call.result = <<[date |-> 1, maxTemp |-> 20, minTemp |-> 10]>>

\* ---- error mapping
C19_ByStatus(status, message) ==
    IF status = 401 THEN message = "INVALID_API_KEY"
    ELSE IF status = 404 THEN message = "CITY_NOT_FOUND"
    ELSE IF status = 429 THEN message = "TOO_MANY_REQUESTS"
    ELSE message \notin {"INVALID_API_KEY", "CITY_NOT_FOUND", "TOO_MANY_REQUESTS",
                         "NETWORK_ERROR"}
C19_NonOk(response) ==
    response.kind = "http" /\ (response.status < 200 \/ response.status > 299)

\* C19 as claimed: when the provider request whose failure getWeather or
\* searchPlaces reports returned non-2xx status s, the message surfaced is
\* determined by s alone: 401, 404 and 429 give their three messages and any
\* other status gives none of them and not the connectivity message.
C19_MessageByStatusAlone ==
    /\ (call.fn = "getWeatherData.catch" /\ C19_NonOk(call.args[1]))
          => C19_ByStatus(call.args[1].status, call.result)
    /\ (/\ call.fn = "getWeatherData.catch"
        /\ call.args[1].kind = "http" /\ ~C19_NonOk(call.args[1])
        /\ C19_NonOk(call.args[2]))
          => C19_ByStatus(call.args[2].status, call.result)
    /\ (call.fn = "searchCities.catch" /\ C19_NonOk(call.args[1]))
          => C19_ByStatus(call.args[1].status, call.result)

C21_NoRequestWithoutKey ==
    apiKey = MissingKey =>
        /\ call.fn = "hasAPIKey" => call.result = FALSE
        /\ ev.op \in {"getWeatherData", "searchCities"}
              => (ev.outcome = "error" /\ ev.issued = NoIssued)
        /\ ev.appid # MissingKey

\* C22: no de-duplication of concurrent misses. A getWeather call that is
\* admitted and misses the cache while another call for the same key is still
\* awaiting its responses issues its own current-conditions and forecast
\* request, takes a slot of its own beside the other call (four requests in
\* all) and records its own timestamp for 'weather'.
C22_ConcurrentMissesBothFetch ==
    [][\A slot \in Slots :
          (/\ ev'.op = "getWeatherData" /\ Passed(ev')
           /\ ev'.entry # "fresh"
           /\ inflight[slot].op = "weather" /\ inflight[slot].key = ev'.key)
             => /\ ev'.outcome = "pending" /\ ev'.issued = OneOfEach
                /\ ev'.slot # slot
                /\ inflight'[slot] = inflight[slot]
                /\ inflight'[ev'.slot] = [op |-> "weather", key |-> ev'.key]
                /\ Count(requests'["weather"], now)
                      = Count(requests["weather"], now) + 1
      ]_vars

C22_Witness ==
    /\ ev.op = "getWeatherData" /\ ev.outcome = "pending" /\ ev.issued = OneOfEach
    /\ \A slot \in Slots : inflight[slot] = [op |-> "weather", key |-> ev.key]
    /\ Count(requests["weather"], now) = 2

\* C23 as claimed: while the dashboard is mounted and shows weather data for
\* a location, each run of the interval callback calls refreshWeatherData for
\* the location shown; the timer is cleared on unmount.
C23_IntervalRefreshesShownLocation ==
    /\ (dashboard.op = "interval" /\ dashboard.mounted /\ dashboard.weatherData # <<>>)
          => dashboard.refreshed = dashboard.weatherData
    /\ ~dashboard.mounted => dashboard.timer = <<>>

\* the tolerance, in units of 0.0001 degrees
C24_Epsilon == 10
C24_Near(a, b) ==
    /\ a.lat - b.lat < C24_Epsilon /\ b.lat - a.lat < C24_Epsilon
    /\ a.lon - b.lon < C24_Epsilon /\ b.lon - a.lon < C24_Epsilon

\* C24 as claimed: after any sequence of additions the recent searches list
\* has at most 5 entries, the location added last is first, and no two
\* entries have coordinates equal within the epsilon tolerance.
C24_RecentSearchesBoundedAndDistinct ==
    LET list == dashboard.recentSearches
    IN  /\ Len(list) <= 5
        /\ dashboard.op = "addRecentSearch" => list[1].name = dashboard.weatherData[1]
        /\ \A i, j \in DOMAIN list : C24_Near(list[i], list[j]) => i = j

\* C25: backoff duration and cap. A denial that records a violation makes
\* the identifier's count one more than it was (an allowed call having removed
\* the record, the count is the number k of violations since the last allowed
\* call), returns retryAfter = baseBackoff * 2^min(k-1, 10) and sets
\* lastViolation = now; every retryAfter returned is at most baseBackoff * 1024;
\* and a denial that directly follows an allowed call returns baseBackoff.
C25_Records(id) ==
    /\ now' = now
    /\ violations'[id].present
    /\ violations'[id] # violations[id]

C26_BackoffEnd(id) ==
    violations[id].lastViolation
        + baseBackoffMs * 2^Min(violations[id].count - 1, 10)

C26_BackingOff(id) == violations[id].present /\ now < C26_BackoffEnd(id)

C26_CallOnObserved == now' = now /\ (last' # last \/ prev' # prev)

C26_DenialDuringBackoff ==
    [][/\ (C26_CallOnObserved /\ C26_BackingOff(observed)) =>
            /\ Denied(last')
            /\ last'.retryAfter = C26_BackoffEnd(observed) - now
            /\ last'.retryAfter > 0
            /\ requests' = requests
            /\ violations' = violations
       /\ (C26_CallOnObserved /\ Denied(last')) => requests' = requests
       /\ \A id \in Identifiers :
              (C26_BackingOff(id) /\ now' = now) =>
                  (requests'[id] = requests[id] /\ violations'[id] = violations[id])
       /\ \A id \in Identifiers :
              requests'[id] # requests[id] => AllowedCallOn(id)
      ]_vars

C26_Witness ==
    /\ Denied(prev) /\ Denied(last)
    /\ last.time = now /\ last.time > prev.time
    /\ last.retryAfter = prev.retryAfter - (last.time - prev.time)
    /\ violations[observed].count = 1
    /\ violations[observed].lastViolation = prev.time
    /\ Len(requests[observed]) = maxRequests

\* C27: clearIdentifier(id) resets exactly one identifier. The call leaves id
\* without timestamps and without a violation record and leaves the timestamps
\* and violation records of every other identifier as they were; the next
\* checkRequest(id), whenever it is made and whatever was denied before, is
\* allowed with remaining = N - 1.
C27_ClearResetsOneIdentifier ==
    /\ [][\A id \in Identifiers :
            (ev'.op = "clearIdentifier" /\ ev'.id = id) =>
                /\ requests'[id] = <<>>
                /\ ~violations'[id].present
                /\ \A other \in Identifiers \ {id} :
                       /\ requests'[other] = requests[other]
                       /\ violations'[other] = violations[other]
         ]_vars
    /\ [][(ev.op = "clearIdentifier" /\ ev.id = observed /\ C26_CallOnObserved)
             => (last'.allowed /\ last'.remaining = maxRequests - 1)]_vars
    /\ []((burst.active /\ burst.n = 1)
             => (last.allowed /\ last.remaining = maxRequests - 1))

C27_Witness ==
    /\ Denied(prev)
    /\ last.called /\ last.allowed /\ last.time = now
    /\ last.time < prev.time + prev.retryAfter
    /\ last.remaining = maxRequests - 1
    /\ maxRequests = 2
    /\ burst.active /\ burst.n = 1
    /\ requests[observed] = <<now>>
    /\ \E other \in Identifiers \ {observed} : violations[other].present

\* C28 as claimed: getRemainingRequests(id) is a pure query. It returns N minus
\* the number of timestamps of id inside the window and leaves the timestamps
\* and violation records of all identifiers as they were, in both classes.
C28_InsideWindow(reqs) == Cardinality({i \in DOMAIN reqs : now - reqs[i] < windowMs})

C28_RemainingIsPureQuery ==
    [][(call'.fn = "getRemainingRequests" /\ now' = now) =>
          LET id == call'.args[2]
              reqs == IF call'.args[1] = "enhanced" THEN requests[id]
                      ELSE legacyRequests[id]
          IN  /\ call'.result = maxRequests - C28_InsideWindow(reqs)
              /\ requests' = requests
              /\ violations' = violations
              /\ legacyRequests' = legacyRequests
      ]_vars

\* C30 as claimed: for every sequence of isAllowed calls at non-decreasing
\* times, the deprecated RateLimiter (an EnhancedRateLimiter with the default
\* base backoff) and the legacy RateLimiter built with the same maxRequests
\* and windowMs return the same answer to every call.
C30_SameAnswers ==
    call.fn = "isAllowed" => call.result.enhanced = call.result.legacy

\* C29 as claimed: when refreshWeatherData is called while an earlier
\* getWeatherData for the same key awaits its responses, then once both have
\* completed successfully the cache entry is the snapshot the refresh built,
\* whatever the order of the completions. (In SpecRefresh the earlier call's
\* fetch is in slot 1 and the cache is empty when it starts, so an entry held
\* while slot 1 is pending was stored by a refresh that has completed.)
C29_RefreshSnapshotKept ==
    [][(/\ inflight[1].op = "weather" /\ inflight[2].op = "idle"
        /\ inflight[1].key \in DOMAIN cache
        /\ ev'.op = "completeWeather" /\ ev'.slot = 1 /\ ev'.outcome = "returned")
          => /\ inflight[1].key \in DOMAIN cache'
             /\ cache'[inflight[1].key].data = cache[inflight[1].key].data
      ]_vars

====
